---- MODULE Spec2Model ----
(***************************************************************************)
(* Model of src/app.py: the Streamlit dashboard of the IRVE charging       *)
(* stations.  One script run is: load_data() (cached by st.cache_data),    *)
(* the df.empty guard, the sidebar (reload button, department selectbox,   *)
(* power slider), the filters, the KPIs and the charts.                    *)
(*                                                                         *)
(* Text is a sequence of one-character strings, so that len(), isdigit(),  *)
(* slicing and the regular expression \b(\d{5})\b are computed as the      *)
(* code computes them.  A cell of the table is a record [k, s, n]:         *)
(* k is "nan" (null), "absent" (the column is not in the table), "num"     *)
(* (a number n), "str" (text s), "int" / "float" (a commune code that      *)
(* read_csv parsed as a number; s holds the digits of its integer part).   *)
(***************************************************************************)
EXTENDS Integers, Sequences, FiniteSets, TLC

\* ------------------------------------------------------------------ bounds
\* rows of a fetched table (the code reads at most NRows)
MaxRows == 2
\* script runs between two cache clears
MaxLectures == 2
\* slider positions explored, from 0
MaxSlider == 2
\* length of the generated address texts
MaxAddrLen == 5

\* nrows of read_csv
NRows == 20000

\* ------------------------------------------------------------------ text
Digits == {"0", "1", "2", "3", "4", "5", "6", "7", "8", "9"}
Letters == {"A", "B", "P", "R", "X", "a", "e", "i", "n", "r", "s", "u", "_"}
\* the other characters used: " ", "." and "-" are neither digits nor word characters

\* str.isdigit() on one character
IsDigitChar(c) == c \in Digits

\* \w of the re module on one character
IsWordChar(c) == c \in Digits \cup Letters

\* str.isdigit(): non-empty and every character a digit
isdigit(s) == Len(s) > 0 /\ \A i \in 1..Len(s) : IsDigitChar(s[i])

\* s[:k]
Prefix(s, k) == SubSeq(s, 1, IF Len(s) < k THEN Len(s) ELSE k)

\* \b at the gap before position i (1-based; i = Len(s)+1 is the end)
WordBoundary(s, i) ==
    LET before == i > 1 /\ IsWordChar(s[i - 1])
        after == i <= Len(s) /\ IsWordChar(s[i])
    IN before # after

PostalLen == 5

\* the pattern \b(\d{5})\b matches at position i
MatchesAt(s, i) ==
    /\ i + PostalLen - 1 <= Len(s)
    /\ \A j \in i..(i + PostalLen - 1) : IsDigitChar(s[j])
    /\ WordBoundary(s, i)
    /\ WordBoundary(s, i + PostalLen)

MatchPositions(s) == {i \in 1..Len(s) : MatchesAt(s, i)}

Min(S) == CHOOSE x \in S : \A y \in S : x <= y
Max(S) == CHOOSE x \in S : \A y \in S : x >= y

\* re.search(r'\b(\d{5})\b', s): group(1) of the leftmost match, <<>> if none
re_search(s) ==
    IF MatchPositions(s) = {} THEN <<>>
    ELSE SubSeq(s, Min(MatchPositions(s)), Min(MatchPositions(s)) + PostalLen - 1)

\* ------------------------------------------------------------------ cells
NaN == [k |-> "nan", s |-> <<>>, n |-> 0]
Absent == [k |-> "absent", s |-> <<>>, n |-> 0]
Num(x) == [k |-> "num", s |-> <<>>, n |-> x]
Txt(t) == [k |-> "str", s |-> t, n |-> 0]
IntCode(t) == [k |-> "int", s |-> t, n |-> 0]
FloatCode(t) == [k |-> "float", s |-> t, n |-> 0]

\* pd.notna(cell)
notna(c) == c.k # "nan"

\* str(cell): text as is, an int as its digits, a float as digits + ".0",
\* a null as "nan"
str(c) ==
    CASE c.k = "str" -> c.s
      [] c.k = "int" -> c.s
      [] c.k = "float" -> c.s \o <<".", "0">>
      [] OTHER -> <<"n", "a", "n">>

Inconnu == <<"I", "n", "c", "o", "n", "n", "u">>
Tous == <<"T", "o", "u", "s">>
OperateurInconnu == <<"Operateur Inconnu">>
Tiret == <<"-">>

DepLen == 2
CodeMinLen == 2

\* ------------------------------------------------------------------ columns
ColNames == {"Operateur", "Puissance", "Longitude", "Latitude", "Code_Commune", "Adresse"}

\* mutant: the address is tried before the commune code
trouver_departement_adresse_dabord(row, cols) ==
    LET code == str(row.code)
        byCode == /\ "Code_Commune" \in cols
                  /\ notna(row.code)
                  /\ Len(code) >= CodeMinLen
                  /\ isdigit(code)
        match == re_search(str(row.adresse))
    IN IF "Adresse" \in cols /\ match # <<>> THEN Prefix(match, DepLen)
       ELSE IF byCode THEN Prefix(code, DepLen)
       ELSE Inconnu

\* mutant: the commune code is trusted only with exactly five digits
trouver_departement_cinq(row, cols) ==
    LET code == str(row.code)
        byCode == /\ "Code_Commune" \in cols
                  /\ notna(row.code)
                  /\ Len(code) = PostalLen
                  /\ isdigit(code)
        match == re_search(str(row.adresse))
    IN IF byCode THEN Prefix(code, DepLen)
       ELSE IF "Adresse" \in cols /\ match # <<>> THEN Prefix(match, DepLen)
       ELSE Inconnu

\* trouver_departement(row); cols are the columns of the frame the row is of
trouver_departement(row, cols) ==
    LET code == str(row.code)
        byCode == /\ "Code_Commune" \in cols
                  /\ notna(row.code)
                  /\ Len(code) >= CodeMinLen
                  /\ isdigit(code)
        match == re_search(str(row.adresse))
    IN IF byCode THEN Prefix(code, DepLen)
       ELSE IF "Adresse" \in cols /\ match # <<>> THEN Prefix(match, DepLen)
       ELSE Inconnu

\* ------------------------------------------------------------------ frames
\* A frame is [cols, rows]; a row carries its index label idx and one cell per
\* whitelisted column (Absent where the frame has no such column), and, once
\* derived, its department dep.
EmptyFrame == [cols |-> {}, rows |-> <<>>]

\* DataFrame.empty: no row or no column
empty(t) == t.rows = <<>> \/ t.cols = {}

\* df.dropna(subset=['Longitude', 'Latitude']) under its guard (lines 44-45)
dropna(t) ==
    IF "Longitude" \in t.cols /\ "Latitude" \in t.cols
    THEN LET Garde(r) == notna(r.lon) /\ notna(r.lat)
         IN [t EXCEPT !.rows = SelectSeq(t.rows, Garde)]
    ELSE t

\* the two fillna under their guards (lines 47-51)
fillna(t) ==
    LET F(r) == [r EXCEPT
                   !.op = IF "Operateur" \in t.cols /\ ~notna(@)
                          THEN Txt(OperateurInconnu) ELSE @,
                   !.adresse = IF "Adresse" \in t.cols /\ ~notna(@)
                               THEN Txt(<<>>) ELSE @]
    IN [t EXCEPT !.rows = [i \in 1..Len(t.rows) |-> F(t.rows[i])]]

\* df['Departement'] = df.apply(trouver_departement, axis=1) (line 72)
apply_departement(t) ==
    LET D(r) == [idx |-> r.idx, op |-> r.op, puissance |-> r.puissance,
                 lon |-> r.lon, lat |-> r.lat, code |-> r.code,
                 adresse |-> r.adresse, dep |-> trouver_departement(r, t.cols)]
    IN [cols |-> t.cols \cup {"Departement"},
        rows |-> [i \in 1..Len(t.rows) |-> D(t.rows[i])]]

\* mutant: the rows of unknown department are kept
garder_tous(t) == t

\* df = df[df['Departement'] != "Inconnu"] (line 75)
garder_connus(t) ==
    LET Connu(r) == r.dep # Inconnu
    IN [t EXCEPT !.rows = SelectSeq(t.rows, Connu)]

\* stages of load_data at which a failure can be raised inside the try block
Etapes == {"fetch", "parse", "clean", "derive"}

Issues == Etapes \cup {"none"}

\* mutant: the except clause catches the failures of the fetch only
attrape_fetch_seul(etape) == etape = "fetch"

\* the except clause (lines 79-81): which failures it catches
attrape(etape) == TRUE

\* the body of load_data (lines 20-81) on the fetched table src, with a
\* failure raised at stage echec_ ("none": no failure).
\* Result: the returned frame, whether st.error was called, and the
\* exception that left load_data ("none" if none).
load_data(src, echec_) ==
    IF echec_ = "none"
    THEN [df |-> garder_connus(apply_departement(fillna(dropna(src)))),
          erreur |-> FALSE, exc |-> "none"]
    ELSE IF attrape(echec_)
    THEN [df |-> EmptyFrame, erreur |-> TRUE, exc |-> "none"]
    ELSE [df |-> EmptyFrame, erreur |-> FALSE, exc |-> "Exception"]

\* ------------------------------------------------------------------ sidebar
DefaultMaxP == 250
TopN == 10

\* sorted(df['Departement'].unique()), as a set (lines 107-112)
liste_dep(t) ==
    IF "Departement" \in t.cols THEN {t.rows[i].dep : i \in 1..Len(t.rows)} ELSE {}

\* the non-null powers of a frame
Puissances(t) ==
    {t.rows[i].puissance.n : i \in {j \in 1..Len(t.rows) : notna(t.rows[j].puissance)}}

\* line 115: int(df['Puissance (kW)'].max()), or 250 without the column;
\* -1 stands for the ValueError of int(nan) when every power is null
max_p(t) ==
    IF "Puissance" \notin t.cols THEN DefaultMaxP
    ELSE IF Puissances(t) = {} THEN -1
    ELSE Max(Puissances(t))

\* ------------------------------------------------------------------ filters
\* df_filtered[df_filtered['Departement'] == choix_dep] under its guard
\* (lines 121-122)
filtre_dep(t, choix) ==
    IF choix # Tous
    THEN LET Garde(r) == r.dep = choix
         IN [t EXCEPT !.rows = SelectSeq(t.rows, Garde)]
    ELSE t

\* mutant: the threshold is exclusive
filtre_puissance_strict(t, minp) ==
    IF "Puissance" \in t.cols
    THEN LET Garde(r) == notna(r.puissance) /\ r.puissance.n > minp
         IN [t EXCEPT !.rows = SelectSeq(t.rows, Garde)]
    ELSE t

\* df_filtered[df_filtered['Puissance (kW)'] >= min_power] under its guard
\* (lines 124-125); a null power compares False
filtre_puissance(t, minp) ==
    IF "Puissance" \in t.cols
    THEN LET Garde(r) == notna(r.puissance) /\ r.puissance.n >= minp
         IN [t EXCEPT !.rows = SelectSeq(t.rows, Garde)]
    ELSE t

\* lines 119-125
appliquer_filtres(t, choix, minp) == filtre_puissance(filtre_dep(t, choix), minp)

\* ------------------------------------------------------------------ KPIs
RECURSIVE Somme(_)
Somme(S) == IF S = {} THEN 0 ELSE LET x == CHOOSE y \in S : TRUE
                                  IN x[2] + Somme(S \ {x})

\* round(num / den, 1) in tenths, ties to even
ArrondiDixiemes(num, den) ==
    LET q == (10 * num) \div den
        r == (10 * num) % den
    IN IF 2 * r > den THEN q + 1
       ELSE IF 2 * r < den THEN q
       ELSE IF q % 2 = 0 THEN q ELSE q + 1

\* mutant: the mean is taken of an empty view too (a null)
moyenne_sans_garde(t) ==
    LET idxs == {j \in 1..Len(t.rows) : notna(t.rows[j].puissance)}
    IN IF idxs = {} THEN NaN
       ELSE Num(ArrondiDixiemes(Somme({<<j, t.rows[j].puissance.n>> : j \in idxs}),
                                Cardinality(idxs)))

\* line 131: round(mean, 1) in tenths of kW as a number cell, 0 for an empty
\* view; the mean skips nulls
moyenne(t) ==
    IF empty(t) THEN Num(0)
    ELSE LET idxs == {j \in 1..Len(t.rows) : notna(t.rows[j].puissance)}
         IN IF idxs = {} THEN NaN
            ELSE Num(ArrondiDixiemes(Somme({<<j, t.rows[j].puissance.n>> : j \in idxs}),
                                     Cardinality(idxs)))

\* occurrences of operator o in the view
Compte(t, o) == Cardinality({j \in 1..Len(t.rows) : t.rows[j].op.s = o})

Operateurs(t) == {t.rows[j].op.s : j \in 1..Len(t.rows)}

\* Series.mode() sorts the modes: a total order on the operator names used
Rang(o) == CASE o = <<"A">> -> 1 [] o = <<"B">> -> 2 [] OTHER -> 3

\* line 134: mode()[0], "-" for an empty view
top_op(t) ==
    IF empty(t) THEN Tiret
    ELSE LET modes == {o \in Operateurs(t) :
                         \A o2 \in Operateurs(t) : Compte(t, o) >= Compte(t, o2)}
         IN CHOOSE o \in modes : \A o2 \in modes : Rang(o) <= Rang(o2)

\* line 163: value_counts().head(10), as the set of (operator, count)
top_data(t) ==
    LET tous == {<<o, Compte(t, o)>> : o \in Operateurs(t)}
    IN IF Cardinality(tous) <= TopN THEN tous
       ELSE CHOOSE T \in SUBSET tous :
              /\ Cardinality(T) = TopN
              /\ \A x \in T, y \in tous \ T : x[2] >= y[2]

\* columns px.scatter_mapbox reads (lines 145-155)
ColonnesCarte == {"Latitude", "Longitude", "Puissance", "Operateur", "Adresse"}

\* ------------------------------------------------------------------ sources
\* what the remote file may hold: rows over all six columns ...
Ligne(o, p, lo, la, c, a) ==
    [op |-> o, puissance |-> p, lon |-> lo, lat |-> la, code |-> c, adresse |-> a]

Echantillon ==
    { Ligne(Txt(<<"A">>), Num(1), Num(2), Num(48), Txt(<<"7", "5", "0", "1", "5">>),
            Txt(<<>>)),
      Ligne(Txt(<<"B">>), Num(2), Num(4), Num(45), NaN,
            Txt(<<"R", " ", "6", "9", "0", "0", "1">>)),
      Ligne(NaN, NaN, NaN, Num(43), Txt(<<"2", "A", "0", "0", "4">>),
            Txt(<<"1", "3", "0", "0", "1">>)),
      Ligne(Txt(<<"A">>), Num(0), Num(2), NaN, Txt(<<"1", "2", "3">>), NaN),
      Ligne(Txt(<<"B">>), Num(1), Num(2), Num(48), NaN, Txt(<<>>)) }

\* ... of which the file has the columns cols; the index is 0, 1, ...
Projeter(r, i, cols) ==
    [idx |-> i - 1,
     op |-> IF "Operateur" \in cols THEN r.op ELSE Absent,
     puissance |-> IF "Puissance" \in cols THEN r.puissance ELSE Absent,
     lon |-> IF "Longitude" \in cols THEN r.lon ELSE Absent,
     lat |-> IF "Latitude" \in cols THEN r.lat ELSE Absent,
     code |-> IF "Code_Commune" \in cols THEN r.code ELSE Absent,
     adresse |-> IF "Adresse" \in cols THEN r.adresse ELSE Absent]

Frames(lignes, cols, n) ==
    {[cols |-> cols, rows |-> [i \in 1..n |-> Projeter(f[i], i, cols)]] :
        f \in [1..n -> lignes]}

Sources ==
    UNION {Frames(Echantillon, cols, n) : cols \in SUBSET ColNames, n \in 0..MaxRows}

\* one-row files for the department derivation: generated address texts and
\* commune codes of every shape read_csv produces
AddrAlphabet == {"7", "5", " ", "R"}

Textes == UNION {[1..k -> AddrAlphabet] : k \in 0..MaxAddrLen}

Adresses ==
    {NaN} \cup {Txt(t) : t \in Textes}
    \cup {Txt(<<"1", "2", " ", "R", "u", "e", " ", "X", " ", "7", "5", "0", "1", "5",
                 " ", "P", "a", "r", "i", "s">>),
           Txt(<<"7", "5", "0", "1", "5", " ", "6", "9", "0", "0", "1">>),
           Txt(<<"9", "3", "1", "0", "0", "_", "B">>),
           Txt(<<" ", "7", "5", "7", "5", "7">>), Txt(<<"R", "7", "5", "7", "5", "7">>),
           Txt(<<"7", "5", "7", "5", "7", " ">>), Txt(<<"7", "5", "7", "5", "7", "R">>),
           Txt(<<"7", "5", "7", "5", "7", "5">>),
           Txt(<<"R", " ", "7", "5", "0", "1", "5", ".">>)}

Codes ==
    {NaN, Txt(<<>>), Txt(<<"7">>), Txt(<<"1", "2", "3">>),
     Txt(<<"6", "9", "1", "2", "3">>), Txt(<<"2", "A", "0", "0", "4">>),
     Txt(<<"0", "1", "0", "0", "1", "0">>),
     IntCode(<<"1", "0", "0", "1">>), FloatCode(<<"6", "9", "1", "2", "3">>)}

\* the one-row file with longitude lo, commune code c and address a, over
\* columns cols
DeptSource(lo, c, a, cols) ==
    [cols |-> cols,
     rows |-> <<Projeter(Ligne(Txt(<<"A">>), Num(1), lo, Num(48), c, a), 1, cols)>>]

DeptCols == {ColNames \ X : X \in SUBSET {"Code_Commune", "Adresse"}}

\* read_csv(..., nrows=20000) (line 26)
read_csv(src) ==
    [src EXCEPT !.rows = SubSeq(@, 1, IF Len(@) < NRows THEN Len(@) ELSE NRows)]

\* ------------------------------------------------------------------ state
VARIABLES
    raw,            \* the frame read_csv returned at the last fetch
    echec,          \* the stage at which the last fetch pipeline failed, or "none"
    cache,          \* st.cache_data entry of load_data: [plein, val]
    df,             \* the frame load_data() returned to this run
    erreur,         \* st.error of load_data is shown in this run
    avertissement,  \* st.warning of line 89 is shown in this run
    bouton,         \* the sidebar (reload button, selectbox) was rendered
    choix_dep,      \* selectbox value
    min_power,      \* slider value
    df_filtered,    \* the filtered view
    kpi,            \* [count, moyenne, top_op] of lines 129-135
    top,            \* top_data of line 163
    pc,             \* "init", "stopped" (st.stop), "crashed", "done", "rerun"
    exception,      \* the uncaught exception that ended the run, or "none"
    ligne,          \* the line that raised it, or 0
    lectures,       \* calls of load_data() since the cache was last cleared
    fetches,        \* fetch pipelines run since the cache was last cleared
    premiere        \* the frame returned by the first of those calls

vars == <<raw, echec, cache, df, erreur, avertissement, bouton, choix_dep, min_power,
          df_filtered, kpi, top, pc, exception, ligne, lectures, fetches, premiere>>

CacheVide == [plein |-> FALSE, val |-> [df |-> EmptyFrame, erreur |-> FALSE, exc |-> "none"]]
KpiVide == [count |-> -1, moyenne |-> Absent, top_op |-> <<>>]
PremiereVide == [def |-> FALSE, df |-> EmptyFrame]

\* mutant: load_data() is not cached
CacheJamais(c) == FALSE

\* @st.cache_data (line 14): load_data() is served from the cache when filled
CacheHit(c) == c.plein

\* the script after load_data() returned res (lines 85-178), with the widget
\* values choix and minp: everything the run leaves behind
script(res, choix, minp) ==
    LET t == res.df
        base == [df |-> t, erreur |-> res.erreur, avertissement |-> FALSE,
                 bouton |-> FALSE, choix_dep |-> Tous, min_power |-> 0,
                 df_filtered |-> EmptyFrame, kpi |-> KpiVide, top |-> {},
                 pc |-> "done", exception |-> "none", ligne |-> 0]
        dff == appliquer_filtres(t, choix, minp)
        side == [base EXCEPT !.bouton = TRUE, !.choix_dep = choix]
        filt == [side EXCEPT !.min_power = minp, !.df_filtered = dff,
                             !.kpi = [KpiVide EXCEPT !.count = Len(dff.rows)]]
        kpis == [filt EXCEPT !.kpi = [count |-> Len(dff.rows), moyenne |-> moyenne(dff),
                                      top_op |-> top_op(dff)]]
    IN IF res.exc # "none"
       THEN [base EXCEPT !.pc = "crashed", !.exception = res.exc, !.ligne = 85]
       ELSE IF empty(t)
       THEN [base EXCEPT !.pc = "stopped", !.avertissement = TRUE]
       ELSE IF max_p(t) < 0
       THEN [side EXCEPT !.pc = "crashed", !.exception = "ValueError", !.ligne = 115]
       ELSE IF ~empty(dff) /\ "Puissance" \notin dff.cols
       THEN [filt EXCEPT !.pc = "crashed", !.exception = "KeyError", !.ligne = 131]
       ELSE IF ~empty(dff) /\ "Operateur" \notin dff.cols
       THEN [filt EXCEPT !.pc = "crashed", !.exception = "KeyError", !.ligne = 134,
                         !.kpi = [@ EXCEPT !.moyenne = moyenne(dff)]]
       ELSE IF ~empty(dff) /\ ~(ColonnesCarte \subseteq dff.cols)
       THEN [kpis EXCEPT !.pc = "crashed", !.exception = "ValueError", !.ligne = 145]
       ELSE [kpis EXCEPT !.top = IF empty(dff) THEN {} ELSE top_data(dff)]

\* the values the widgets can hold in a run over frame t
Choix(t) == {Tous} \cup liste_dep(t)
Curseur(t) == 0..(IF max_p(t) < MaxSlider THEN max_p(t) ELSE MaxSlider)

\* one run of the script over load result res
Finir(res, defaut) ==
    \E choix \in Choix(res.df), minp \in (Curseur(res.df) \cup {0}) :
        /\ defaut => (choix = Tous /\ minp = 0)
        /\ LET out == script(res, choix, minp)
           IN /\ df' = out.df
              /\ erreur' = out.erreur
              /\ avertissement' = out.avertissement
              /\ bouton' = out.bouton
              /\ choix_dep' = out.choix_dep
              /\ min_power' = out.min_power
              /\ df_filtered' = out.df_filtered
              /\ kpi' = out.kpi
              /\ top' = out.top
              /\ pc' = out.pc
              /\ exception' = out.exception
              /\ ligne' = out.ligne

\* a script run: load_data() through the cache c, then the rest of the script.
\* S is what the remote file may hold when a fetch happens, E the stages at
\* which the pipeline may fail ("none": it does not).
Executer(S, E, c, lect, fet, prem, defaut) ==
    IF CacheHit(c)
    THEN /\ Finir(c.val, defaut)
         /\ cache' = c
         /\ lectures' = lect + 1
         /\ fetches' = fet
         /\ premiere' = IF prem.def THEN prem ELSE [def |-> TRUE, df |-> c.val.df]
         /\ UNCHANGED <<raw, echec>>
    ELSE \E src \in S, e \in E :
           LET lu == IF e = "fetch" THEN EmptyFrame ELSE read_csv(src)
               res == load_data(lu, e)
           IN /\ Finir(res, defaut)
              /\ raw' = lu
              /\ echec' = e
              /\ cache' = IF res.exc = "none" THEN [plein |-> TRUE, val |-> res] ELSE c
              /\ lectures' = lect + 1
              /\ fetches' = fet + 1
              /\ premiere' = IF prem.def THEN prem ELSE [def |-> TRUE, df |-> res.df]

Init ==
    /\ raw = EmptyFrame
    /\ echec = "none"
    /\ cache = CacheVide
    /\ df = EmptyFrame
    /\ erreur = FALSE
    /\ avertissement = FALSE
    /\ bouton = FALSE
    /\ choix_dep = Tous
    /\ min_power = 0
    /\ df_filtered = EmptyFrame
    /\ kpi = KpiVide
    /\ top = {}
    /\ pc = "init"
    /\ exception = "none"
    /\ ligne = 0
    /\ lectures = 0
    /\ fetches = 0
    /\ premiere = PremiereVide

\* a browser opens or refreshes the page: the script runs with default widgets
NewSession ==
    /\ pc # "rerun"
    /\ lectures < MaxLectures
    /\ Executer(Sources, Issues, cache, lectures, fetches, premiere, TRUE)

\* the user moves the selectbox or the slider: the script reruns
WidgetChange ==
    /\ pc # "rerun"
    /\ bouton
    /\ lectures < MaxLectures
    /\ Executer(Sources, Issues, cache, lectures, fetches, premiere, FALSE)

\* the user clicks the reload button (lines 102-104): the script runs up to
\* line 103, st.cache_data.clear() empties the cache and st.rerun() ends the
\* run with a rerun pending; the locals of the run are gone
ClickReload ==
    /\ pc # "rerun"
    /\ bouton
    /\ raw' = EmptyFrame
    /\ echec' = "none"
    /\ cache' = CacheVide
    /\ df' = EmptyFrame
    /\ erreur' = FALSE
    /\ avertissement' = FALSE
    /\ bouton' = FALSE
    /\ choix_dep' = Tous
    /\ min_power' = 0
    /\ df_filtered' = EmptyFrame
    /\ kpi' = KpiVide
    /\ top' = {}
    /\ pc' = "rerun"
    /\ exception' = "none"
    /\ ligne' = 0
    /\ lectures' = 0
    /\ fetches' = 0
    /\ premiere' = PremiereVide

\* the rerun st.rerun() asked for
Rerun ==
    /\ pc = "rerun"
    /\ Executer(Sources, Issues, cache, lectures, fetches, premiere, FALSE)

Next == NewSession \/ WidgetChange \/ ClickReload \/ Rerun

Spec == Init /\ [][Next]_vars

\* the department derivation alone: the page is opened once on a one-row file
DeriveSample ==
    /\ pc = "init"
    /\ \E cols \in DeptCols :
       \E c \in (IF "Code_Commune" \in cols THEN Codes ELSE {Absent}),
          a \in (IF "Adresse" \in cols THEN Adresses ELSE {Absent}),
          lo \in {Num(2), NaN} :
         Executer({DeptSource(lo, c, a, cols)}, {"none", "derive"}, cache, lectures, fetches, premiere, TRUE)

NextDept == DeriveSample

SpecDept == Init /\ [][NextDept]_vars

\* ================================================================== claims
\* a run of the script has ended
Fini == pc \in {"stopped", "crashed", "done"}

\* the text of the address of a source row ("" for a null or missing address)
AdresseTexte(r) == IF r.adresse.k = "str" THEN r.adresse.s ELSE <<>>

\* the first standalone 5-digit token of the address of a source row, or <<>>
Jeton(r) == re_search(AdresseTexte(r))

\* the rows of the cleaned table that come from the source row of index i
LignesIssuesDe(i) == {j \in 1..Len(df.rows) : df.rows[j].idx = i}

\* the source row is in the cleaned table, with department d
Retenue(r, d) ==
    /\ Cardinality(LignesIssuesDe(r.idx)) = 1
    /\ \A j \in LignesIssuesDe(r.idx) : df.rows[j].dep = d

\* the source row is not in the cleaned table
Ecartee(r) == LignesIssuesDe(r.idx) = {}

\* the source row passes the coordinate cleaning: it has both coordinates, or
\* the source lacks one of the two coordinate columns
Conservee(r) ==
    ("Longitude" \in raw.cols /\ "Latitude" \in raw.cols) =>
        (r.lon.k # "nan" /\ r.lat.k # "nan")

SourceRows == {raw.rows[i] : i \in 1..Len(raw.rows)}

\* the commune code of a source row is a text of exactly five digits
CodeCinqChiffres(r) ==
    /\ r.code.k \notin {"nan", "absent"}
    /\ Len(str(r.code)) = 5
    /\ isdigit(str(r.code))

\* the commune code of a source row, as text, is all digits, two at least
CodeNumerique(r) ==
    /\ r.code.k \notin {"nan", "absent"}
    /\ Len(str(r.code)) >= 2
    /\ isdigit(str(r.code))

\* C1 as stated: after a successful load, every source row whose address holds
\* a standalone 5-digit token has the first two characters of that token as
\* its department, whatever its commune code.
C1_AdresseDAbord ==
    (Fini /\ echec = "none") =>
        \A r \in SourceRows :
            (Jeton(r) # <<>> /\ Conservee(r)) =>
                Retenue(r, SubSeq(Jeton(r), 1, 2))

\* C1 amended: the commune code takes precedence.  After a successful load,
\* a source row that passes the coordinate cleaning and whose address holds a
\* standalone 5-digit token has as department the first two characters of its
\* commune code when that code is non-null, all digits and at least two
\* characters long, and the first two characters of the token otherwise.
C1_CodeDAbord ==
    (Fini /\ echec = "none") =>
        \A r \in SourceRows :
            (Jeton(r) # <<>> /\ Conservee(r)) =>
                Retenue(r, IF CodeNumerique(r) THEN SubSeq(str(r.code), 1, 2)
                           ELSE SubSeq(Jeton(r), 1, 2))

\* C1 witness: a row with a token in its address and a numeric commune code
\* of another department was loaded and carries the department of the code.
C1_Temoin ==
    /\ Fini /\ echec = "none"
    /\ \E r \in SourceRows :
          /\ Jeton(r) # <<>> /\ CodeNumerique(r)
          /\ SubSeq(Jeton(r), 1, 2) # SubSeq(str(r.code), 1, 2)
          /\ Retenue(r, SubSeq(str(r.code), 1, 2))

\* C2 as stated: after a successful load, a source row whose address has no
\* standalone 5-digit token has the first two characters of its commune code
\* as department if the code is present, five characters long and all digits,
\* and is absent from the cleaned table in every other case.
C2_CinqChiffres ==
    (Fini /\ echec = "none") =>
        \A r \in SourceRows :
            (Jeton(r) = <<>> /\ Conservee(r)) =>
                IF CodeCinqChiffres(r) THEN Retenue(r, SubSeq(str(r.code), 1, 2))
                ELSE Ecartee(r)

\* C2 amended: after a successful load, a source row that passes the coordinate
\* cleaning and whose address has no standalone 5-digit token has the first two
\* characters of its commune code as department if and only if the code is
\* non-null and its text is all digits and at least two characters long; in
\* every other case the row is absent from the cleaned table.
C2_DeuxChiffresAuMoins ==
    (Fini /\ echec = "none") =>
        \A r \in SourceRows :
            (Jeton(r) = <<>> /\ Conservee(r)) =>
                IF CodeNumerique(r) THEN Retenue(r, SubSeq(str(r.code), 1, 2))
                ELSE Ecartee(r)

\* C2 witness: a row without token whose commune code is numeric but not five
\* characters long was loaded and kept under the first two digits of the code.
C2_Temoin ==
    /\ Fini /\ echec = "none"
    /\ \E r \in SourceRows :
          /\ Jeton(r) = <<>> /\ CodeNumerique(r) /\ ~CodeCinqChiffres(r)
          /\ Retenue(r, SubSeq(str(r.code), 1, 2))

\* C3: after any load, successful or failed, every row of the cleaned table
\* has a department of exactly two characters that is not the unknown
\* sentinel.
C3_DepartementConnu ==
    Fini => \A j \in 1..Len(df.rows) :
                Len(df.rows[j].dep) = 2 /\ df.rows[j].dep # Inconnu

\* C3 witness: a load has kept a row whose department comes from a numeric
\* commune code that is not five characters long.
C3_Temoin ==
    /\ Fini /\ echec = "none"
    /\ df.rows # <<>>
    /\ \E r \in SourceRows : CodeNumerique(r) /\ ~CodeCinqChiffres(r) /\ ~Ecartee(r)

\* C4 as stated: after a successful load, no source row with a null longitude
\* or a null latitude is in the cleaned table, whatever columns the source
\* has.
C4_CoordonneesNulles ==
    (Fini /\ echec = "none") =>
        \A r \in SourceRows : (r.lon.k = "nan" \/ r.lat.k = "nan") => Ecartee(r)

\* C5 as stated: the reload trigger is usable in every state the dashboard
\* reaches once a run has ended, the state after a failed or empty load
\* included.
C5_RechargeToujoursPossible == Fini => bouton

\* C6: between two cache clears every read returns the table of the first
\* read, at most one fetch is performed, and the table held by the run after
\* its filters and aggregations is still the cached base table.
C6_TableStable ==
    (Fini /\ lectures >= 1) =>
        /\ premiere.def /\ df = premiere.df
        /\ fetches <= 1
        /\ cache.plein /\ cache.val.df = df

\* C6 witness: a second read without reload, over a table that the filters of
\* this run have narrowed.
C6_Temoin ==
    /\ pc = "done" /\ lectures >= 2 /\ fetches = 1
    /\ df.rows # <<>>
    /\ Len(df_filtered.rows) < Len(df.rows)

\* C7: a failure raised at any stage inside load_data is caught: the error is
\* shown, the table is empty, no exception leaves the run, and the run stops
\* on the warning without filtering or aggregating.
C7_EchecAttrape ==
    (Fini /\ echec # "none") =>
        /\ erreur
        /\ empty(df)
        /\ exception = "none"
        /\ pc = "stopped" /\ avertissement
        /\ ~bouton /\ kpi = KpiVide /\ top = {} /\ df_filtered = EmptyFrame

\* C7 witness: a run whose load failed while deriving the departments has
\* stopped on the warning.
C7_Temoin == pc = "stopped" /\ echec = "derive" /\ erreur /\ raw.rows # <<>>

\* the KPIs were computed over an empty view of a non-empty base table
VueVide == Fini /\ ~empty(df) /\ kpi.count = 0

\* the placeholder the spec names
NA == <<"n", "/", "a">>

\* C8 as stated: summarizing an empty view of a non-empty base table raises
\* nothing and yields count 0, mean "n/a" and top operator "n/a".
C8_ResumeNA ==
    VueVide =>
        /\ exception = "none"
        /\ kpi.count = 0
        /\ kpi.moyenne = Txt(NA)
        /\ kpi.top_op = NA

\* C8 amended: summarizing an empty view of a non-empty base table raises
\* nothing and yields count 0, mean power 0 and top operator "-".
C8_ResumeZeroTiret ==
    VueVide =>
        /\ pc = "done" /\ exception = "none"
        /\ empty(df_filtered)
        /\ kpi.moyenne = Num(0)
        /\ kpi.top_op = Tiret
        /\ top = {}

\* C8 witness: a run over a non-empty base table whose filters match no row
\* has shown its KPIs.
C8_Temoin == VueVide /\ pc = "done" /\ df_filtered.rows = <<>> /\ Len(df.rows) >= 2

\* C9 as stated: whatever subset of the six columns the source has, a run
\* over a non-empty cleaned table ends without an exception.
C9_ColonneManquanteSansEchec ==
    (Fini /\ ~empty(df)) => exception = "none"

\* the filters have run in this run
Filtre == Fini /\ ~empty(df) /\ kpi.count >= 0

\* the row passes the department predicate / the power predicate (which is
\* not applied to a table without power column)
DepOK(r, choix) == choix = Tous \/ r.dep = choix
PuissanceOK(t, r, minp) ==
    "Puissance" \in t.cols => (r.puissance.k = "num" /\ r.puissance.n >= minp)

Lignes(t) == {t.rows[j] : j \in 1..Len(t.rows)}

\* C10: the filtered view is the set of rows of the base table that satisfy
\* both predicates, and for every department choice and every threshold the
\* two filters give the same rows in either order.
C10_Conjonction ==
    Filtre =>
        /\ Lignes(df_filtered) =
               {r \in Lignes(df) : DepOK(r, choix_dep) /\ PuissanceOK(df, r, min_power)}
        /\ \A c \in Choix(df), m \in 0..(MaxSlider + 1) :
               /\ filtre_dep(filtre_puissance(df, m), c).rows
                      = filtre_puissance(filtre_dep(df, c), m).rows
               /\ Lignes(appliquer_filtres(df, c, m)) =
                      {r \in Lignes(df) : DepOK(r, c) /\ PuissanceOK(df, r, m)}

\* C10 witness: a department and a positive threshold are selected, a row
\* has exactly the threshold power, and the view keeps some rows only.
C10_Temoin ==
    /\ pc = "done" /\ choix_dep # Tous /\ min_power > 0
    /\ df_filtered.rows # <<>> /\ Len(df_filtered.rows) < Len(df.rows)
    /\ \E r \in Lignes(df_filtered) : r.puissance.n = min_power

====
